---- MODULE Spec2Model ----
(***************************************************************************)
(* DFA construction and minimization for Coxeter automata                  *)
(* (src/uniform-tilings/coxeter/automata.py).                              *)
(*                                                                         *)
(* DFAState objects live in `heap`, a sequence indexed by object identity. *)
(* A state's transition dict is a sequence of <<symbol, target>> pairs in  *)
(* insertion order (the iteration order of a Python dict).                 *)
(*                                                                         *)
(* Three programs are modelled:                                            *)
(*   Spec       a client builds a graph of DFAState objects, wraps it in   *)
(*              DFA(start, sigma) and calls minimize() on it and then on   *)
(*              the DFA returned;                                          *)
(*   RepeatSpec the same client calls minimize() twice on its own DFA;     *)
(*   BuildSpec  get_automaton(reftable, type).                             *)
(***************************************************************************)
EXTENDS Integers, Sequences, FiniteSets, TLC

VARIABLES
    table,    \* get_automaton: reftable, a sequence of rows (0-based in the code)
    mode,     \* get_automaton: type
    rank,     \* get_automaton: table.shape[1]
    states,   \* get_automaton: list of the states created so far
    queue,    \* get_automaton: deque of states to expand
    S,        \* get_automaton: state being expanded
    i,        \* get_automaton: generator of the inner loop
    heap,     \* all DFAState objects
    start,    \* start state handed to the next DFA(start, sigma)
    sigma,    \* alphabet handed to the next DFA(start, sigma)
    dfas,     \* the DFA objects built so far, in order
    P,        \* Hopcroft.P
    W,        \* Hopcroft.__call__: worklist
    A,        \* Hopcroft.__call__: popped block
    c,        \* Hopcroft.__call__: position in sigma of the symbol of the for loop
    T,        \* Hopcroft.__call__: blocks of the snapshot still to visit
    result_dfa, \* Hopcroft.__call__: the new state of each block built
    calls,    \* minimize() calls still to make
    subject,  \* position in dfas of the DFA minimize() is called on
    finalP,   \* Hopcroft.P at the end of each __call__ that returned, in order
    err,      \* exception raised, "none" if none
    pc        \* control position

vars == <<table, mode, rank, states, queue, S, i, heap, start, sigma, dfas,
          P, W, A, c, T, result_dfa, calls, subject, finalP, err, pc>>

bldVars == <<table, mode, rank, states, queue, S, i>>
hopVars == <<P, W, A, c, T, result_dfa>>

\* Python's None, for an optional integer (an index, a table entry, a target).
None == -1

-----------------------------------------------------------------------------
(* Bounds of the inputs *)

MaxStates == 3      \* states of a client-built graph
NumSymbols == 2     \* symbols of a client alphabet
MaxEdges == 4       \* transitions of a client-built graph
MaxWord == 3        \* length of the words tried against two automata
MaxRoots == 3       \* rows of a reflection table
MaxRank == 2        \* columns of a reflection table
MaxDefined == 2     \* entries of a reflection table that are not None
MaxRepeatStates == 4  \* states of a client-built graph minimized twice
MaxRepeatEdges == 3   \* transitions of a client-built graph minimized twice

-----------------------------------------------------------------------------
(* DFAState *)

DFAState(subset, accept) ==
    [subset |-> subset, accept |-> accept, index |-> None, transitions |-> <<>>]

\* symbol in self.transitions
HasTransition(st, symbol) ==
    \E k \in 1..Len(st.transitions) : st.transitions[k][1] = symbol

\* self.transitions.get(symbol, None)
Get(st, symbol) ==
    IF HasTransition(st, symbol)
    THEN LET k == CHOOSE k \in 1..Len(st.transitions) : st.transitions[k][1] = symbol
         IN st.transitions[k][2]
    ELSE None

\* state.add_transition(symbol, target); the caller has checked the symbol is new
add_transition(h, state, symbol, target) ==
    [h EXCEPT ![state].transitions = Append(@, <<symbol, target>>)]

-----------------------------------------------------------------------------
(* DFA *)

RECURSIVE reindex(_, _, _)
RECURSIVE reindexTargets(_, _, _, _)
RECURSIVE reindexTargets_dropped(_, _, _, _)

\* DFA.reindex(state, next_index): <<heap, next_index>> after the call
reindex(h, state, next_index) ==
    IF h[state].index = None
    THEN reindexTargets([h EXCEPT ![state].index = next_index],
                        h[state].transitions, 1, next_index + 1)
    ELSE <<h, next_index>>

\* the loop with the result of the recursive call dropped:
\* self.reindex(target, next_index) in place of next_index = self.reindex(...)
reindexTargets_dropped(h, trs, k, next_index) ==
    IF k > Len(trs)
    THEN <<h, next_index>>
    ELSE LET r == reindex(h, trs[k][2], next_index)
         IN reindexTargets_dropped(r[1], trs, k + 1, next_index)

\* the for loop of reindex over state.all_transitions(), from position k
reindexTargets(h, trs, k, next_index) ==
    IF k > Len(trs)
    THEN <<h, next_index>>
    ELSE LET r == reindex(h, trs[k][2], next_index)
         IN reindexTargets(r[1], trs, k + 1, r[2])

\* DFA(start, sigma): <<heap, the DFA object>>
DFAInit(h, st, sg) ==
    LET r == reindex(h, st, 0)
    IN <<r[1], [start |-> st, sigma |-> sg, num_states |-> r[2]]>>

-----------------------------------------------------------------------------
(* Client-built graphs *)

Symbols == 0..(NumSymbols - 1)

\* tuple(range(n))
TupleRange(n) == [k \in 1..n |-> k - 1]

\* the transition dicts a client can give a state of an n-state graph
StateTrans(n) ==
    UNION { { t \in [1..m -> Symbols \X (1..n)] :
                \A a, b \in 1..m : a # b => t[a][1] # t[b][1] } :
            m \in 0..NumSymbols }

RECURSIVE Graphs(_, _, _)
\* the transition dicts of states 1..k of an n-state graph with at most
\* `budget` transitions in all
Graphs(n, k, budget) ==
    IF k = 0
    THEN {<<>>}
    ELSE UNION { { Append(g, t) : g \in Graphs(n, k - 1, budget - Len(t)) } :
                 t \in { x \in StateTrans(n) : Len(x) <= budget } }

ClientHeap(n, g, acc) ==
    [s \in 1..n |-> [DFAState({s}, acc[s]) EXCEPT !.transitions = g[s]]]

-----------------------------------------------------------------------------
(* Specification: client graph -> DFA -> minimize -> minimize *)

Init ==
    /\ \E n \in 1..MaxStates :
         \E g \in Graphs(n, n, MaxEdges) :
           \E acc \in [1..n -> BOOLEAN] :
             heap = ClientHeap(n, g, acc)
    /\ start = 1
    /\ sigma = TupleRange(NumSymbols)
    /\ table = <<>> /\ mode = "none" /\ rank = 0
    /\ states = <<>> /\ queue = <<>> /\ S = None /\ i = 0
    /\ dfas = <<>>
    /\ P = {} /\ W = {} /\ A = {} /\ c = 0 /\ T = {} /\ result_dfa = <<>>
    /\ calls = 2
    /\ subject = 1 /\ finalP = <<>>
    /\ err = "none"
    /\ pc = "DFA"

\* dfa = DFA(start, sigma)
Construct ==
    /\ pc = "DFA"
    /\ LET r == DFAInit(heap, start, sigma)
       IN /\ heap' = r[1]
          /\ dfas' = Append(dfas, r[2])
    /\ pc' = IF calls > 0 THEN "minimize" ELSE "done"
    /\ UNCHANGED <<bldVars, hopVars, start, sigma, calls, subject, finalP, err>>

-----------------------------------------------------------------------------
(* Hopcroft *)

RECURSIVE ip_aux(_, _, _)
RECURSIVE ip_targets(_, _, _, _)

\* aux(state) of initial_partition: the states in s1 | s2 after the call
ip_aux(h, state, seen) ==
    ip_targets(h, h[state].transitions, 1, seen \cup {state})

\* the for loop of aux over state.transitions.values(), from position k
ip_targets(h, trs, k, seen) ==
    IF k > Len(trs)
    THEN seen
    ELSE ip_targets(h, trs, k + 1,
                    IF trs[k][2] \in seen THEN seen ELSE ip_aux(h, trs[k][2], seen))

\* Hopcroft.initial_partition()
initial_partition(h, st) ==
    LET all == ip_aux(h, st, {})
        s1 == { x \in all : h[x].accept }
        s2 == { x \in all : ~h[x].accept }
    IN IF s1 # {} /\ s2 # {} THEN {s1, s2} ELSE {s1}

\* split with the states that have no transition by the symbol left out of s2
split_dropping(h, Y, symbol, B) ==
    LET s1 == { x \in Y : Get(h[x], symbol) \in B }
        s2 == { x \in Y : HasTransition(h[x], symbol) /\ Get(h[x], symbol) \notin B }
    IN IF s1 # {} /\ s2 # {} THEN {s1, s2} ELSE {}

\* Hopcroft.split(S, c, B): {s1, s2}, or {} for None
split(h, Y, symbol, B) ==
    LET s1 == { x \in Y : Get(h[x], symbol) \in B }
        s2 == { x \in Y : Get(h[x], symbol) \notin B }
    IN IF s1 # {} /\ s2 # {} THEN {s1, s2} ELSE {}

\* whether current_partition_containing(state) finds a block (else it returns None)
InSomeBlock(Pt, state) == \E p \in Pt : state \in p

\* Hopcroft.current_partition_containing(state), when a block holds the state
current_partition_containing(Pt, state) == CHOOSE p \in Pt : state \in p

\* the state DFAState(state.accept) builds: the flag lands in `subset`,
\* `accept` takes its default
BlockState(st) == DFAState(st.accept, TRUE)

RECURSIVE aux(_, _, _, _, _)
RECURSIVE auxTargets(_, _, _, _, _, _, _)

\* aux with the representative itself registered as the state of the block:
\* dfa_state = state in place of dfa_state = DFAState(...)
aux_reusing(h, res, Pt, rep, subset) ==
    LET state == rep[subset]
    IN auxTargets(h, (subset :> state) @@ res,
                  Pt, rep, state, h[state].transitions, 1)

\* aux(subset) of Hopcroft.__call__: <<heap, result_dfa>> after the call;
\* rep[subset] is next(iter(subset))
aux(h, res, Pt, rep, subset) ==
    LET state == rep[subset]
        dfa_state == Len(h) + 1
    IN auxTargets(Append(h, BlockState(h[state])),
                  (subset :> dfa_state) @@ res,
                  Pt, rep, dfa_state, h[state].transitions, 1)

\* the for loop of aux over state.transitions.items(), from position k
auxTargets(h, res, Pt, rep, dfa_state, trs, k) ==
    IF k > Len(trs)
    THEN <<h, res>>
    ELSE LET symbol == trs[k][1]
             target_subset == current_partition_containing(Pt, trs[k][2])
             r == IF target_subset \notin DOMAIN res
                  THEN aux(h, res, Pt, rep, target_subset)
                  ELSE <<h, res>>
         IN auxTargets(add_transition(r[1], dfa_state, symbol, r[2][target_subset]),
                       r[2], Pt, rep, dfa_state, trs, k + 1)

\* the choices of next(iter(subset)) for the blocks of a partition
Representatives(Pt) ==
    { rep \in [Pt -> UNION Pt] : \A p \in Pt : rep[p] \in p }

\* the DFA minimize() is called on
Current == dfas[subject]

\* Hopcroft(dfa) and the choice of the first worklist in __call__
HopcroftInit ==
    /\ pc = "minimize"
    /\ LET ip == initial_partition(heap, Current.start)
       IN /\ P' = ip
          /\ IF Cardinality(ip) = 2
             THEN \E s1 \in ip :
                    LET s2 == CHOOSE x \in ip : x # s1
                    IN W' = IF Cardinality(s1) <= Cardinality(s2) THEN {s1} ELSE {s2}
             ELSE W' = ip
    /\ A' = {} /\ c' = 0 /\ T' = {} /\ result_dfa' = <<>>
    /\ pc' = "while_W"
    /\ UNCHANGED <<bldVars, heap, start, sigma, dfas, calls, subject, finalP, err>>

\* A = W.pop(), and the snapshot of the first symbol
Pop ==
    /\ pc = "while_W"
    /\ W # {}
    /\ \E a \in W :
         /\ A' = a
         /\ W' = W \ {a}
    /\ IF Len(Current.sigma) > 0
       THEN c' = 1 /\ T' = P /\ pc' = "for_Y"
       ELSE c' = 0 /\ T' = {} /\ pc' = "while_W"
    /\ UNCHANGED <<bldVars, heap, start, sigma, dfas, P, result_dfa, calls, subject, finalP, err>>

\* one iteration of `for Y in T`, and the bookkeeping of the loops around it
SplitStep ==
    /\ pc = "for_Y"
    /\ \E Y \in T :
         LET Sp == split(heap, Y, Current.sigma[c], A)
             P1 == IF Sp # {} THEN (P \ {Y}) \cup Sp ELSE P
             T1 == T \ {Y}
         IN /\ P' = P1
            /\ IF Sp = {}
               THEN W' = W
               ELSE IF Y \in W
                    THEN W' = (W \ {Y}) \cup Sp
                    ELSE \E s1 \in Sp :
                           LET s2 == CHOOSE x \in Sp : x # s1
                           IN W' = IF Cardinality(s1) <= Cardinality(s2)
                                   THEN W \cup {s1}
                                   ELSE W \cup {s2}
            /\ IF T1 # {}
               THEN T' = T1 /\ c' = c /\ pc' = "for_Y"
               ELSE IF c < Len(Current.sigma)
                    THEN T' = P1 /\ c' = c + 1 /\ pc' = "for_Y"
                    ELSE T' = {} /\ c' = c /\ pc' = "while_W"
    /\ UNCHANGED <<bldVars, heap, start, sigma, dfas, A, result_dfa, calls, subject, finalP, err>>

\* the end of __call__: result_dfa, aux(initial_subset) and DFA(..., self.sigma)
Rebuild ==
    /\ pc = "while_W"
    /\ W = {}
    /\ IF InSomeBlock(P, Current.start)
       THEN \E rep \in Representatives(P) :
              LET initial_subset == current_partition_containing(P, Current.start)
                  r == aux(heap, <<>>, P, rep, initial_subset)
                  d == DFAInit(r[1], r[2][initial_subset], Current.sigma)
              IN /\ heap' = d[1]
                 /\ result_dfa' = r[2]
                 /\ dfas' = Append(dfas, d[2])
                 /\ calls' = calls - 1
                 /\ subject' = Len(dfas) + 1
                 /\ finalP' = Append(finalP, P)
                 /\ pc' = IF calls > 1 THEN "minimize" ELSE "done"
                 /\ err' = err
       ELSE \* next(iter(None))
            /\ err' = "TypeError"
            /\ pc' = "error"
            /\ UNCHANGED <<heap, result_dfa, dfas, calls, subject, finalP>>
    /\ UNCHANGED <<bldVars, P, W, A, c, T, start, sigma>>

-----------------------------------------------------------------------------
(* get_automaton *)

\* np.asarray(reftable, dtype=object) is 2-dimensional: some rows, all of one length
Rectangular(tab) ==
    /\ Len(tab) > 0
    /\ \A j \in 1..Len(tab) : Len(tab[j]) = Len(tab[1])

\* table[j][i] raises IndexError: row j does not exist (j is never negative
\* here: the labels hold generators and entries of the tables tried)
RowMissing(tab, j) == j >= Len(tab)

\* table[j][i], rows and columns counted from 0 as in the code
Entry(tab, j, gen) == tab[j + 1][gen + 1]

\* the rows subset_transition(S, i) reads
RowsRead(md, subset, gen) ==
    subset \cup (IF md = "shortlex" THEN 0..(gen - 1) ELSE {})

\* subset_transition(S, i) raises IndexError
subset_transition_raises(tab, md, subset, gen) ==
    /\ gen \notin subset
    /\ \E j \in RowsRead(md, subset, gen) : RowMissing(tab, j)

\* subset_transition without the branch of type == "shortlex"
subset_transition_reduced(tab, md, subset, gen) ==
    {gen}
    \cup { Entry(tab, j, gen) : j \in { x \in subset : Entry(tab, x, gen) # None } }

\* subset_transition(S, i), when it returns a frozenset (i not in S)
subset_transition(tab, md, subset, gen) ==
    {gen}
    \cup { Entry(tab, j, gen) : j \in { x \in subset : Entry(tab, x, gen) # None } }
    \cup (IF md = "shortlex"
          THEN { Entry(tab, j, gen) :
                   j \in { x \in 0..(gen - 1) : Entry(tab, x, gen) # None } }
          ELSE {})

\* the positions of a table whose rows have the lengths `lens`
Positions(n, lens) == { q \in (1..n) \X (1..MaxRank) : q[2] <= lens[q[1]] }

\* the table with the entries `val` at the positions D and None elsewhere
MakeTable(n, lens, D, val) ==
    [j \in 1..n |-> [k \in 1..lens[j] |->
        IF <<j, k>> \in D THEN val[<<j, k>>] ELSE None]]

\* The reflection tables tried: rows of any lengths, at most MaxDefined entries
\* that are not None, each a root index or the first integer that is none.
BuildInit ==
    /\ \E n \in 0..MaxRoots :
         \E lens \in [1..n -> 1..MaxRank] :
           \E D \in SUBSET Positions(n, lens) :
             /\ Cardinality(D) <= MaxDefined
             /\ \E val \in [D -> 0..MaxRoots] :
                  table = MakeTable(n, lens, D, val)
    /\ mode \in {"shortlex", "reduced", "unknown"}
    /\ rank = 0 /\ states = <<>> /\ queue = <<>> /\ S = None /\ i = 0
    /\ heap = <<>>
    /\ start = None
    /\ sigma = <<>>
    /\ dfas = <<>>
    /\ P = {} /\ W = {} /\ A = {} /\ c = 0 /\ T = {} /\ result_dfa = <<>>
    /\ calls = 1
    /\ subject = 1 /\ finalP = <<>>
    /\ err = "none"
    /\ pc = "get_automaton"

\* get_automaton up to the while loop: the mode check, table, rank, start, queue, states
GetAutomaton ==
    /\ pc = "get_automaton"
    /\ IF mode \notin {"shortlex", "reduced"}
       THEN /\ err' = "ValueError" /\ pc' = "error"
            /\ UNCHANGED <<rank, heap, start, queue, states>>
       ELSE IF ~Rectangular(table)
            THEN \* table.shape[1] of a 1-dimensional array
                 /\ err' = "IndexError" /\ pc' = "error"
                 /\ UNCHANGED <<rank, heap, start, queue, states>>
            ELSE /\ rank' = Len(table[1])
                 /\ heap' = <<DFAState({}, TRUE)>>
                 /\ start' = 1
                 /\ queue' = <<1>>
                 /\ states' = <<1>>
                 /\ err' = err
                 /\ pc' = "while_queue"
    /\ UNCHANGED <<table, mode, S, i, sigma, dfas, hopVars, calls, subject, finalP>>

\* S = queue.popleft()
Dequeue ==
    /\ pc = "while_queue"
    /\ queue # <<>>
    /\ S' = Head(queue)
    /\ queue' = Tail(queue)
    /\ i' = 0
    /\ pc' = IF rank > 0 THEN "for_i" ELSE "while_queue"
    /\ UNCHANGED <<table, mode, rank, states, heap, start, sigma, dfas, hopVars,
                   calls, subject, finalP, err>>

\* the search of `states` comparing objects, not subsets: it never finds t
FindState_identity(h, sts, t) == None

\* the state of `states` whose subset is t, or None
FindState(h, sts, t) ==
    IF \E k \in 1..Len(sts) : h[sts[k]].subset = t
    THEN sts[CHOOSE k \in 1..Len(sts) :
               /\ h[sts[k]].subset = t
               /\ \A m \in 1..(k - 1) : h[sts[m]].subset # t]
    ELSE None

\* one iteration of `for i in range(rank)`
BfsStep ==
    /\ pc = "for_i"
    /\ IF /\ ~HasTransition(heap[S], i)
          /\ subset_transition_raises(table, mode, heap[S].subset, i)
       THEN /\ err' = "IndexError" /\ pc' = "error" /\ i' = i
            /\ UNCHANGED <<heap, queue, states>>
       ELSE /\ IF HasTransition(heap[S], i) \/ i \in heap[S].subset
               THEN \* the transition is known, or subset_transition returns None
                    UNCHANGED <<heap, queue, states>>
               ELSE LET t == subset_transition(table, mode, heap[S].subset, i)
                        found == FindState(heap, states, t)
                        new == Len(heap) + 1
                    IN IF found # None
                       THEN /\ heap' = add_transition(heap, S, i, found)
                            /\ UNCHANGED <<queue, states>>
                       ELSE /\ heap' = add_transition(
                                         Append(heap, DFAState(t, TRUE)), S, i, new)
                            /\ queue' = Append(queue, new)
                            /\ states' = Append(states, new)
            /\ err' = err
            /\ i' = i + 1
            /\ pc' = IF i + 1 < rank THEN "for_i" ELSE "while_queue"
    /\ UNCHANGED <<table, mode, rank, S, start, sigma, dfas, hopVars, calls, subject, finalP>>

\* return DFA(start, tuple(range(rank))).minimize(): the DFA
Return ==
    /\ pc = "while_queue"
    /\ queue = <<>>
    /\ LET r == DFAInit(heap, start, TupleRange(rank))
       IN /\ heap' = r[1]
          /\ dfas' = Append(dfas, r[2])
    /\ sigma' = TupleRange(rank)
    /\ pc' = "minimize"
    /\ UNCHANGED <<bldVars, hopVars, start, calls, subject, finalP, err>>

Next ==
    \/ Construct
    \/ HopcroftInit
    \/ Pop
    \/ SplitStep
    \/ Rebuild

Spec == Init /\ [][Next]_vars

BuildNext ==
    \/ GetAutomaton
    \/ Dequeue
    \/ BfsStep
    \/ Return
    \/ HopcroftInit
    \/ Pop
    \/ SplitStep
    \/ Rebuild

BuildSpec == BuildInit /\ [][BuildNext]_vars

\* get_automaton up to the DFA it hands to minimize()
LoopNext ==
    \/ GetAutomaton
    \/ Dequeue
    \/ BfsStep
    \/ Return

\* the construction alone; a running loop takes its next step
FairBuildSpec == BuildInit /\ [][LoopNext]_vars /\ WF_vars(LoopNext)

-----------------------------------------------------------------------------
(* Specification: client graph -> d = DFA(start, sigma); d.minimize(); d.minimize() *)

\* a client graph whose states are all reachable from the start state
RepeatInit ==
    /\ \E n \in 1..MaxRepeatStates :
         \E g \in Graphs(n, n, MaxRepeatEdges) :
           \E acc \in [1..n -> BOOLEAN] :
             /\ ip_aux(ClientHeap(n, g, acc), 1, {}) = 1..n
             /\ heap = ClientHeap(n, g, acc)
    /\ start = 1
    /\ sigma = TupleRange(NumSymbols)
    /\ table = <<>> /\ mode = "none" /\ rank = 0
    /\ states = <<>> /\ queue = <<>> /\ S = None /\ i = 0
    /\ dfas = <<>>
    /\ P = {} /\ W = {} /\ A = {} /\ c = 0 /\ T = {} /\ result_dfa = <<>>
    /\ calls = 1
    /\ subject = 1 /\ finalP = <<>>
    /\ err = "none"
    /\ pc = "DFA"

\* the client calls minimize() on its first DFA a second time
MinimizeAgain ==
    /\ pc = "done"
    /\ Len(dfas) = 2
    /\ subject' = 1
    /\ calls' = 1
    /\ pc' = "minimize"
    /\ UNCHANGED <<bldVars, hopVars, heap, start, sigma, dfas, finalP, err>>

RepeatNext ==
    \/ Construct
    \/ HopcroftInit
    \/ Pop
    \/ SplitStep
    \/ Rebuild
    \/ MinimizeAgain

RepeatSpec == RepeatInit /\ [][RepeatNext]_vars

-----------------------------------------------------------------------------
(* Vocabulary of the properties *)

\* the targets of a state's transitions
Targets(st) == { st.transitions[k][2] : k \in 1..Len(st.transitions) }

RECURSIVE Closure(_, _)
Closure(h, X) ==
    LET Y == X \cup UNION { Targets(h[x]) : x \in X }
    IN IF Y = X THEN X ELSE Closure(h, Y)

\* the states reachable from st
Reachable(h, st) == Closure(h, {st})

\* the words over the symbols of sg of length at most MaxWord
Words(sg) ==
    UNION { [1..m -> { sg[k] : k \in 1..Len(sg) }] : m \in 0..MaxWord }

RECURSIVE AcceptsFrom(_, _, _)
\* a word is accepted from x iff every transition along it is defined and the
\* state reached has accept = true
AcceptsFrom(h, x, w) ==
    IF w = <<>>
    THEN h[x].accept
    ELSE /\ HasTransition(h[x], Head(w))
         /\ AcceptsFrom(h, Get(h[x], Head(w)), Tail(w))

\* the language of the DFA d, up to MaxWord
Language(h, d) == { w \in Words(d.sigma) : AcceptsFrom(h, d.start, w) }

-----------------------------------------------------------------------------
(* Properties of minimize() *)

\* C1: the DFA minimize() returns accepts a symbol sequence (of length at most
\* MaxWord) iff the DFA it was called on accepts it.
LanguagePreserved ==
    Len(dfas) >= 2 => Language(heap, dfas[2]) = Language(heap, dfas[1])

\* C2: in the DFA minimize() returns, any two distinct states are told apart by
\* some symbol sequence accepted from one and not from the other.
ResultMinimal ==
    Len(dfas) >= 2 =>
        \A x, y \in Reachable(heap, dfas[2].start) :
            x # y => \E w \in Words(dfas[2].sigma) :
                        AcceptsFrom(heap, x, w) # AcceptsFrom(heap, y, w)

\* C8: minimize() of the result of minimize() has as many states as that result.
MinimizeIdempotent ==
    Len(dfas) >= 3 => dfas[3].num_states = dfas[2].num_states

\* C10: the state built for a block of the final partition has the accept flag
\* of the members of the block.
AcceptFlagOfBlock ==
    \A B \in DOMAIN result_dfa :
        \A x \in B : heap[result_dfa[B]].accept = heap[x].accept

\* the state objects of the DFA d
StatesOf(d) == Reachable(heap, d.start)

\* a step of minimize() keeps every state object and every DFA object that
\* exists when it is taken
MinimizeStepKeeps ==
    pc \in {"minimize", "while_W", "for_Y"} =>
        /\ \A o \in 1..Len(heap) : heap'[o] = heap[o]
        /\ \A k \in 1..Len(dfas) : dfas'[k] = dfas[k]

\* C3: no step of minimize() changes a state object that exists when the step
\* is taken (label, accept flag, id, transitions) or a DFA object (start,
\* alphabet, num_states), and the DFA it returns shares no state object with
\* the DFA it was called on.
InputNotMutated ==
    /\ [](\A k \in 1..Len(dfas) : \A m \in 1..Len(dfas) :
            k # m => StatesOf(dfas[k]) \cap StatesOf(dfas[m]) = {})
    /\ [][MinimizeStepKeeps]_vars

\* minimize() has returned for an input of three states, two of them merged
InputNotMutatedWitness ==
    /\ Len(dfas) >= 2
    /\ dfas[1].num_states = 3
    /\ dfas[2].num_states = 2
    /\ \E x \in StatesOf(dfas[1]) : Len(heap[x].transitions) = 2

-----------------------------------------------------------------------------
(* Properties of DFA(start, sigma) *)

\* the targets of a state's transitions, in the order of the dict
TargetSeq(st) == [k \in 1..Len(st.transitions) |-> st.transitions[k][2]]

RECURSIVE DepthFirst(_, _, _)
\* the states in the order a depth-first traversal with an explicit stack and a
\* visited set first meets them
DepthFirst(h, stack, visited) ==
    IF stack = <<>>
    THEN visited
    ELSE IF \E k \in 1..Len(visited) : visited[k] = Head(stack)
         THEN DepthFirst(h, Tail(stack), visited)
         ELSE DepthFirst(h, TargetSeq(h[Head(stack)]) \o Tail(stack),
                         Append(visited, Head(stack)))

\* C6: DFA(start, sigma) gives the n states reachable from start the ids 0..n-1
\* in depth-first visitation order, each state one id, sets num_states to n and
\* leaves the other states without an id.
IndexedDepthFirst ==
    \A k \in 1..Len(dfas) :
        LET d == dfas[k]
            order == DepthFirst(heap, <<d.start>>, <<>>)
        IN /\ d.num_states = Cardinality(StatesOf(d))
           /\ Len(order) = d.num_states
           /\ \A m \in 1..Len(order) : heap[order[m]].index = m - 1
           /\ { heap[x].index : x \in StatesOf(d) } = 0..(d.num_states - 1)
           /\ Len(dfas) = 1 =>
                \A x \in (1..Len(heap)) \ StatesOf(d) : heap[x].index = None

\* a client graph of three reachable states with a cycle and a shared target
\* has been indexed
IndexedDepthFirstWitness ==
    /\ Len(dfas) = 1
    /\ dfas[1].num_states = 3
    /\ \E x, y \in StatesOf(dfas[1]) :
         /\ x # y
         /\ Targets(heap[x]) \cap Targets(heap[y]) # {}
    /\ \E x \in StatesOf(dfas[1]) : dfas[1].start \in Targets(heap[x])

-----------------------------------------------------------------------------
(* Properties of get_automaton *)

\* the states get_automaton has created
Created == { states[k] : k \in 1..Len(states) }

\* the entries of a table
Entries(tab) == UNION { { tab[j][k] : k \in 1..Len(tab[j]) } : j \in 1..Len(tab) }

\* every entry that is not None is the index of a row
EntriesValid(tab) == Entries(tab) \subseteq ({None} \cup 0..(Len(tab) - 1))

\* a reflection table: rectangular, a row for every generator, valid entries
WellFormed(tab) ==
    /\ Rectangular(tab)
    /\ Len(tab[1]) <= Len(tab)
    /\ EntriesValid(tab)

ModeKnown == mode \in {"shortlex", "reduced"}

\* the label the transition rule gives the successor of the label `lab` by g
SuccessorLabel(tab, md, lab, g) ==
    LET image(J) == { tab[j + 1][g + 1] : j \in J } \ {None}
    IN {g} \cup image(lab) \cup (IF md = "shortlex" THEN image(0..(g - 1)) ELSE {})

\* C4: in the raw DFA, a state has an i-transition iff i is not in its label,
\* the target is the state labelled {i} \cup {table[j][i] : j in S} (with
\* {table[j][i] : j < i} added in shortlex mode only), no two states share a
\* label and the start state has the empty label.
TransitionRule ==
    Len(dfas) >= 1 =>
        /\ heap[dfas[1].start].subset = {}
        /\ StatesOf(dfas[1]) = Created
        /\ \A x, y \in Created : x # y => heap[x].subset # heap[y].subset
        /\ \A x \in Created : \A g \in 0..(rank - 1) :
             /\ HasTransition(heap[x], g) <=> g \notin heap[x].subset
             /\ HasTransition(heap[x], g) =>
                  /\ Get(heap[x], g) \in Created
                  /\ heap[Get(heap[x], g)].subset =
                        SuccessorLabel(table, mode, heap[x].subset, g)

\* a shortlex automaton is built in which the rows j < i add a root to a label
TransitionRuleWitness ==
    /\ Len(dfas) >= 1
    /\ mode = "shortlex"
    /\ \E x \in Created : \E g \in 0..(rank - 1) :
         /\ HasTransition(heap[x], g)
         /\ heap[Get(heap[x], g)].subset # SuccessorLabel(table, "reduced", heap[x].subset, g)
    /\ \E x \in Created : \E g \in 0..(rank - 1) :
         /\ heap[x].subset # {}
         /\ HasTransition(heap[x], g)
         /\ Cardinality(heap[Get(heap[x], g)].subset) >= 2

\* the while loop of get_automaton has ended and the DFA is built
LoopEnded == pc \in {"minimize", "while_W", "for_Y", "done"}

MalformedTableRejected ==
    ~Rectangular(table) \/ ~EntriesValid(table) => heap = <<>> /\ dfas = <<>>

\* C9: a table of one column gives, in either mode, a raw DFA of the two states
\* {} and {0} and an automaton of two states, with the one transition
\* start --0--> other and none from the other state.
RankOneAutomaton ==
    Rectangular(table) /\ Len(table[1]) = 1 /\ ModeKnown =>
        /\ pc # "error"
        /\ pc = "done" =>
             /\ Len(states) = 2
             /\ heap[states[1]].subset = {} /\ heap[states[2]].subset = {0}
             /\ heap[states[1]].transitions = << <<0, states[2]>> >>
             /\ heap[states[2]].transitions = <<>>
             /\ dfas[2].num_states = 2
             /\ Cardinality(StatesOf(dfas[2])) = 2
             /\ \E y \in StatesOf(dfas[2]) :
                  /\ y # dfas[2].start
                  /\ heap[dfas[2].start].transitions = << <<0, y>> >>
                  /\ heap[y].transitions = <<>>

\* get_automaton has returned for a table of three rows and one column
RankOneAutomatonWitness ==
    /\ Rectangular(table) /\ Len(table[1]) = 1 /\ ModeKnown
    /\ Len(table) = 3
    /\ table[1][1] # None
    /\ pc = "done"

-----------------------------------------------------------------------------
(* Properties of the refinement loop of Hopcroft.__call__ *)

\* the refinement loop has ended: the worklist is empty
RefinementEnded == pc = "while_W" /\ W = {}

\* no member of the block B has a transition by the symbol
NoneMoves(h, B, symbol) == \A x \in B : ~HasTransition(h[x], symbol)

\* every member of the block B has a transition by the symbol, and the targets
\* lie in one block of Pt
AllMoveTogether(h, Pt, B, symbol) ==
    /\ \A x \in B : HasTransition(h[x], symbol)
    /\ \E B2 \in Pt : \A x \in B : Get(h[x], symbol) \in B2

\* C11: when the refinement loop ends, for every block B of the partition and
\* every symbol of the alphabet, either no member of B has a transition by the
\* symbol, or every member has one and the targets lie in one block.
FinalPartitionStable ==
    RefinementEnded =>
        \A B \in P : \A k \in 1..Len(Current.sigma) :
            \/ NoneMoves(heap, B, Current.sigma[k])
            \/ AllMoveTogether(heap, P, B, Current.sigma[k])

\* the same, for the inputs whose states are all accepting (one initial block)
FinalPartitionStableOneBlock ==
    RefinementEnded /\ (\A x \in Reachable(heap, Current.start) : heap[x].accept)
        => FinalPartitionStable

\* the refinement loop of __call__ is running
InLoop == pc \in {"while_W", "for_Y"}

\* P is a set of non-empty, pairwise disjoint blocks that cover exactly the
\* states reachable from the start state
PartitionOfReachable ==
    /\ \A B \in P : B # {}
    /\ \A B1, B2 \in P : B1 # B2 => B1 \cap B2 = {}
    /\ UNION P = Reachable(heap, Current.start)

\* a step inside the loop leaves P alone or replaces one block by two non-empty
\* blocks that make it up
SplitOnlyStep ==
    InLoop /\ pc' \in {"while_W", "for_Y"} =>
        \/ P' = P
        \/ \E Y \in P : \E Y1, Y2 \in P' :
             /\ Y1 # {} /\ Y2 # {} /\ Y1 \cap Y2 = {}
             /\ Y1 \cup Y2 = Y
             /\ P' = (P \ {Y}) \cup {Y1, Y2}

\* C12: in every state of the refinement loop P is a set of pairwise disjoint,
\* non-empty blocks whose union is the set of states reachable from the start
\* state, and every block of the worklist is a block of P; every step leaves P
\* unchanged or replaces one block by two non-empty blocks that make it up.
PartitionInvariant ==
    /\ [](InLoop => PartitionOfReachable /\ W \subseteq P)
    /\ [][SplitOnlyStep]_vars

\* the same, for the inputs that have an accepting state
PartitionInvariantSomeAccepting ==
    /\ [](InLoop /\ (\E x \in Reachable(heap, Current.start) : heap[x].accept)
            => PartitionOfReachable /\ W \subseteq P)
    /\ [][SplitOnlyStep]_vars

-----------------------------------------------------------------------------
(* Properties of the choices minimize() leaves to the iteration order of sets *)

\* C13: two calls of minimize() on one DFA, whatever block each pops from the
\* worklist, in whatever order each visits the snapshot, whichever of two
\* halves of equal size and whichever representative of a block each takes,
\* end with the same partition and return DFAs with the same num_states.
OrderIndependent ==
    Len(finalP) >= 2 =>
        /\ finalP[2] = finalP[1]
        /\ dfas[3].num_states = dfas[2].num_states

\* the same, for the final partition alone
OrderIndependentPartition == Len(finalP) >= 2 => finalP[2] = finalP[1]

\* the same, for the inputs whose states are all accepting
OrderIndependentOneBlock ==
    Len(finalP) >= 2 /\ (\A x \in Reachable(heap, dfas[1].start) : heap[x].accept)
        => OrderIndependent

====
